---- MODULE Spec2Model ----
(***************************************************************************)
(* Model of the Splunk MCP server (src/src/index.ts): the SplunkMCPServer  *)
(* class, its five tools and two resources, and the Splunk SDK calls they  *)
(* make.  Each action is one run-to-completion step of the JavaScript      *)
(* event loop: the synchronous part of a handler up to its first await, or *)
(* one SDK completion callback together with the continuation it resumes.  *)
(* The handlers are registered with the MCP server and nothing in the      *)
(* source queues or locks them, so invocations interleave at their awaits. *)
(* The validation script (src/validate.sh) is modelled beside it, as a     *)
(* run over its counting and branching statements.                         *)
(***************************************************************************)
EXTENDS Integers, Sequences, FiniteSets, TLC

\* ---------------------------------------------------------------- bounds
MaxInv == 2        \* invocations that may be in flight at the same time

Slots == 1..MaxInv

\* Service objects are numbered.  Only the objects something still refers
\* to matter: this.splunkService and the configure invocations in flight,
\* so MaxInv + 1 numbers are enough and a number is used again once its
\* object is unreachable.
Handles == 1..(MaxInv + 1)

\* ------------------------------------------------------ JavaScript values
\* An optional value is a sequence of length at most one.
None == <<>>
Some(v) == <<v>>

\* A JavaScript number is a fraction <<numerator, denominator>>.
Num(n) == <<n, 1>>
Geq(a, b) == a[1] * b[2] >= b[1] * a[2]
Leq(a, b) == a[1] * b[2] <= b[1] * a[2]

\* Values that reach a response text: a string, an object or undefined.
StrVal(s) == <<"string", s>>
ObjVal(k) == <<"object", k>>
Undefined == <<"undefined">>
IsString(v) == v[1] = "string"

\* JSON.stringify(v, null, 2): undefined stays undefined, a string is
\* quoted, an object is serialised.
JSONstringify(v) ==
  IF v = Undefined THEN Undefined
  ELSE IF IsString(v) THEN StrVal("\"" \o v[2] \o "\"")
  ELSE StrVal("{" \o v[2] \o "}")

\* if (x): an optional string is truthy when it is given and not empty.
Truthy(opt) == opt # None /\ opt[1] # ""

\* query.startsWith(prefix)
StartsWith(s, prefix) ==
  Len(s) >= Len(prefix) /\ SubSeq(s, 1, Len(prefix)) = prefix

\* error instanceof Error ? error.message : String(error)
ErrorText(e) == IF e.isError THEN e.message ELSE "[object Object]"

\* ------------------------------------------------------------ tool schemas
MinMaxCount == 1
MaxMaxCount == 10000
DefaultMaxCount == 100
DefaultPort == 8089
OutputModes == {"json", "csv", "xml"}
DefaultOutputMode == "json"
Schemes == {"http", "https"}
DefaultScheme == "https"

\* Mutant: max_count has no upper bound.
ValidSearchArgsNoMax(a) ==
  /\ a.query # None
  /\ a.max_count # None => Geq(a.max_count[1], Num(1))
  /\ a.output_mode # None => a.output_mode[1] \in {"json", "csv", "xml"}

\* The search schema: query is required; max_count is a number in
\* [1, 10000]; output_mode is one of the enumeration.
ValidSearchArgs(a) ==
  /\ a.query # None
  /\ a.max_count # None =>
       /\ Geq(a.max_count[1], Num(MinMaxCount))
       /\ Leq(a.max_count[1], Num(MaxMaxCount))
  /\ a.output_mode # None => a.output_mode[1] \in OutputModes

\* The parsed search arguments, defaults filled in.
ParseSearchArgs(a) ==
  [query |-> a.query[1],
   earliest_time |-> a.earliest_time,
   latest_time |-> a.latest_time,
   max_count |-> IF a.max_count = None THEN Num(DefaultMaxCount)
                 ELSE a.max_count[1],
   output_mode |-> IF a.output_mode = None THEN DefaultOutputMode
                   ELSE a.output_mode[1]]

\* Mutant: the scheme is any string.
ValidConfigureArgsAnyScheme(a) ==
  /\ a.host # None
  /\ a.username # None
  /\ a.password # None

\* The configure schema: host, username and password are required; scheme
\* is one of the enumeration.
ValidConfigureArgs(a) ==
  /\ a.host # None
  /\ a.username # None
  /\ a.password # None
  /\ a.scheme # None => a.scheme[1] \in Schemes

\* Mutant: the scheme defaults to http.
ParseConfigureArgsHttp(a) ==
  [host |-> a.host[1],
   port |-> IF a.port = None THEN DefaultPort ELSE a.port[1],
   username |-> a.username[1],
   password |-> a.password[1],
   scheme |-> IF a.scheme = None THEN "http" ELSE a.scheme[1]]

\* The parsed configure arguments, defaults filled in.
ParseConfigureArgs(a) ==
  [host |-> a.host[1],
   port |-> IF a.port = None THEN DefaultPort ELSE a.port[1],
   username |-> a.username[1],
   password |-> a.password[1],
   scheme |-> IF a.scheme = None THEN DefaultScheme ELSE a.scheme[1]]

\* The run_saved_search schema: name is required.
ValidRunSavedSearchArgs(a) == a.name # None

\* What the MCP server answers when the arguments do not fit the schema;
\* the tool callback is not called.
InvalidParams == [code |-> "InvalidParams"]

\* --------------------------------------------------------------- the state
VARIABLES
  splunkService,   \* this.splunkService: Null or the index of a handle
  handles,         \* the login state of every Service still referred to
  inv,             \* the invocations in flight, one per slot
  script           \* a run of validate.sh: where it is and what it counted

vars == <<splunkService, handles, inv, script>>

Null == 0

\* A slot: the operation, the arguments as the caller sent them (input),
\* the arguments the handler was called with (args), where the handler is
\* suspended (pc), for a configure what this.splunkService held when it
\* began ("unset" or the login state of that Service: before) and the
\* Service it created (h), the job obtained, the SDK calls made so far and
\* the response.
Idle ==
  [op |-> "none", input |-> None, args |-> None, pc |-> "idle",
   before |-> "n/a", h |-> Null, job |-> None, calls |-> <<>>, resp |-> None]

\* The request for operation op with arguments input reaches slot i.
Request(i, op, input) == [inv EXCEPT ![i].op = op, ![i].input = input]

\* The MCP server rejects the arguments of the request.
Reject(i, op, input) ==
  inv' = [Request(i, op, input) EXCEPT ![i].pc = "done",
                                       ![i].resp = Some(InvalidParams)]

\* ------------------------------------------------------------ validate.sh
\* The statements of validate.sh that count or branch, in the order of the
\* file.  check: the function check called as a simple command; if: an if
\* whose body holds the next skip statements; inline: a check written out
\* as if/else with the counters updated in place; summary: the summary.
Check(cond) == [kind |-> "check", cond |-> cond, skip |-> 0]
If(cond, skip) == [kind |-> "if", cond |-> cond, skip |-> skip]
Inline(cond) == [kind |-> "inline", cond |-> cond, skip |-> 0]
Summary == [kind |-> "summary", cond |-> "", skip |-> 0]

ValidateScript ==
  << Check("node"), If("node", 1), Check("node >= 18"),
     Check("pnpm"),
     Check("package.json"), Check("tsconfig.json"), Check("src/index.ts"),
     Check("src/types/splunk-sdk.d.ts"), Check("README.md"),
     Check("MCP_SETUP.md"), Check("start.sh"), Check("start.sh executable"),
     Check("src"), Check("examples"),
     If("node_modules", 4), Check("mcp sdk"), Check("splunk-sdk"),
     Check("zod"), Check("typescript"),
     If("dist", 1), Check("dist/index.js"),
     If("pnpm", 2), If("node_modules", 1), Inline("build"),
     If("pnpm", 3), If("node_modules", 2), If("dist after build", 1),
     Inline("test"),
     Check("no passwords"), Check("no secrets"), Check(".gitignore"),
     If(".gitignore", 2), Check("config.json ignored"), Check(".env ignored"),
     Check("config.example.json"),
     If("config.example.json", 2), If("node", 1), Inline("valid json"),
     If("README.md", 3), Check("Installation"), Check("Usage"),
     Check("Examples"),
     If("MCP_SETUP.md", 2), Check("Configuration"), Check("Troubleshooting"),
     Summary >>

\* The conditions the script tests more than once: what the first test
\* found, the later ones find again.
Tested ==
  {"node", "pnpm", "node_modules", ".gitignore", "config.example.json",
   "README.md", "MCP_SETUP.md"}

\* set -e at the head of the script.
SetE == TRUE

\* The exit statuses of the script.
ExitAllPassed == 0
ExitMostPassed == 1
ExitSeveralFailed == 2
\* The status of a failed simple command, with which set -e leaves.
CheckFailed == 1
\* Most checks passed: more than TOTAL_CHECKS * 3 / 4.
MostNum == 3
MostDen == 4

\* The run before its first statement.
ScriptStart ==
  [pc |-> 1, TOTAL_CHECKS |-> 0, PASSED_CHECKS |-> 0,
   found |-> [c \in Tested |-> "untested"], summary |-> FALSE, exit |-> None]

\* What a test of condition cond may find.
Outcomes(cond) ==
  IF cond \in Tested /\ script.found[cond] # "untested"
  THEN {script.found[cond] = "yes"}
  ELSE BOOLEAN

\* The findings after condition cond was found to be v.
Found(cond, v) ==
  IF cond \in Tested
  THEN [script.found EXCEPT ![cond] = IF v THEN "yes" ELSE "no"]
  ELSE script.found

\* The statement the run is at.
Statement == ValidateScript[script.pc]

Running == script.exit = None

\* check "<cond>" "<message>": the counters are updated and check returns
\* 1 when the condition fails; under set -e that status ends the script.
CheckStep ==
  /\ Running /\ Statement.kind = "check"
  /\ UNCHANGED <<splunkService, handles, inv>>
  /\ \E v \in Outcomes(Statement.cond) :
       script' =
         [script EXCEPT
            !.TOTAL_CHECKS = @ + 1,
            !.PASSED_CHECKS = IF v THEN @ + 1 ELSE @,
            !.found = Found(Statement.cond, v),
            !.pc = @ + 1,
            !.exit = IF ~v /\ SetE THEN Some(CheckFailed) ELSE None]

\* if <cond>; then <body> fi: the body is skipped when the condition fails.
IfStep ==
  /\ Running /\ Statement.kind = "if"
  /\ UNCHANGED <<splunkService, handles, inv>>
  /\ \E v \in Outcomes(Statement.cond) :
       script' =
         [script EXCEPT
            !.found = Found(Statement.cond, v),
            !.pc = IF v THEN @ + 1 ELSE @ + 1 + Statement.skip]

\* if <command>; then PASSED_CHECKS++ else print_error fi; TOTAL_CHECKS++
InlineStep ==
  /\ Running /\ Statement.kind = "inline"
  /\ UNCHANGED <<splunkService, handles, inv>>
  /\ \E v \in BOOLEAN :
       script' =
         [script EXCEPT
            !.TOTAL_CHECKS = @ + 1,
            !.PASSED_CHECKS = IF v THEN @ + 1 ELSE @,
            !.pc = @ + 1]

\* The final summary and the exit status it chooses.
SummaryStep ==
  /\ Running /\ Statement.kind = "summary"
  /\ UNCHANGED <<splunkService, handles, inv>>
  /\ script' =
       [script EXCEPT
          !.summary = TRUE,
          !.exit =
            IF script.PASSED_CHECKS = script.TOTAL_CHECKS
            THEN Some(ExitAllPassed)
            ELSE IF script.PASSED_CHECKS
                    > (script.TOTAL_CHECKS * MostNum) \div MostDen
            THEN Some(ExitMostPassed)
            ELSE Some(ExitSeveralFailed)]

Init ==
  /\ splunkService = Null
  /\ handles = [h \in Handles |-> "free"]
  /\ inv = [i \in Slots |-> Idle]
  /\ script = ScriptStart

\* The login state of the Service behind this.splunkService.
ServiceLogin == handles[splunkService]

\* One call made to the Splunk SDK, with the login state the Service it is
\* made on has at that moment.
Call(name, login, params) == [call |-> name, login |-> login, params |-> params]

\* A call made on a job or a saved search, not on the Service itself.
OnObject == "n/a"

\* A call made on a job: on is the job it is made on.
JobCall(name, job, params) ==
  [call |-> name, login |-> OnObject, params |-> params, on |-> job]

\* An object nothing refers to any more is forgotten.
Collect(hs, svc, iv) ==
  [h \in Handles |->
     IF h = svc \/ \E j \in Slots : iv[j].h = h THEN hs[h] ELSE "free"]

\* A tool result: { content: [{ type: "text", text }], isError? }
ToolResult(text) == [isError |-> FALSE, text |-> text]
\* Mutant: the catch block forgets isError.
ToolErrorNoFlag(prefix, e) ==
  [isError |-> FALSE,
   text |-> StrVal(prefix \o (IF e.isError THEN e.message ELSE "[object Object]"))]

ToolError(prefix, e) ==
  [isError |-> TRUE, text |-> StrVal(prefix \o ErrorText(e))]

\* new Error(message)
Error(message) == [isError |-> TRUE, message |-> message]

NotInitialized ==
  Error("Splunk service not initialized. Please configure connection first.")

\* The second guard, inside runSearch, getSavedSearches, getIndexes,
\* runSavedSearch and getServerInfo.
NotInitializedInner == Error("Splunk service not initialized")

\* TypeError of job.track when the SDK handed over no job.
NoJobError ==
  Error("Cannot read properties of undefined (reading 'track')")

\* Mutant: the guard at the head of a handler is missing.
InitializedAlways == TRUE

\* if (!this.splunkService) throw ...: the guard at the head of a handler.
Initialized == splunkService # Null

\* The invocation in slot i ends with response r.
Done(i, r) == inv' = [inv EXCEPT ![i].pc = "done", ![i].resp = Some(r)]

\* ------------------------------------------------------------- configure
\* Mutant: the success text names the credentials.
SuccessTextCredentials(c) ==
  StrVal("Successfully connected to Splunk at " \o c.scheme \o "://"
         \o c.username \o ":" \o c.password \o "@"
         \o c.host \o ":" \o ToString(c.port))

\* The text of the success response of configure.
SuccessText(c) ==
  StrVal("Successfully connected to Splunk at " \o c.scheme \o "://"
         \o c.host \o ":" \o ToString(c.port))

ServiceOptions(c) ==
  [host |-> c.host, port |-> c.port, username |-> c.username,
   password |-> c.password, scheme |-> c.scheme, version |-> "8.0"]

\* configureSplunkConnection up to the login call: the new Service is
\* assigned to this.splunkService and login is called on it.
configureSplunkConnection(i, a) ==
  LET c == ParseConfigureArgs(a)
      h == CHOOSE k \in Handles :
             handles[k] = "free" /\ \A m \in Handles : handles[m] = "free" => k <= m
      started == [Request(i, "configure", Some(a)) EXCEPT
                    ![i].pc = "login", ![i].args = Some(c), ![i].h = h,
                    ![i].before = IF splunkService = Null THEN "unset"
                                  ELSE ServiceLogin,
                    ![i].calls = <<Call("new Service", "pending", ServiceOptions(c)),
                                   Call("login", "pending", None)>>]
  IN /\ splunkService' = h
     /\ inv' = started
     /\ handles' = Collect([handles EXCEPT ![h] = "pending"], h, started)

\* The configure tool is invoked with arguments a.
ConfigureTool(i, a) ==
  /\ inv[i].pc = "idle"
  /\ UNCHANGED script
  /\ IF ~ValidConfigureArgs(a)
     THEN /\ Reject(i, "configure", Some(a))
          /\ UNCHANGED <<splunkService, handles>>
     ELSE configureSplunkConnection(i, a)

\* The login callback of the configure in slot i: out is None on success
\* and Some(err) on failure.
LoginDone(i, out) ==
  /\ inv[i].pc = "login"
  /\ UNCHANGED script
  /\ IF out # None
     THEN /\ splunkService' = Null
          /\ Done(i, ToolError("Failed to connect to Splunk: ", out[1]))
          /\ handles' = Collect([handles EXCEPT ![inv[i].h] = "failed"],
                                Null, inv)
     ELSE /\ UNCHANGED splunkService
          /\ Done(i, ToolResult(SuccessText(inv[i].args[1])))
          /\ handles' = [handles EXCEPT ![inv[i].h] = "ok"]

\* ---------------------------------------------------------------- search
\* Mutant: the directive is put in front of every query.
SearchParamsAlways(p) ==
  [search |-> "search " \o p.query,
   output_mode |-> p.output_mode,
   count |-> p.max_count,
   earliest_time |-> IF Truthy(p.earliest_time) THEN p.earliest_time ELSE None,
   latest_time |-> IF Truthy(p.latest_time) THEN p.latest_time ELSE None]

\* searchParams as the search handler builds it.
SearchParams(p) ==
  [search |-> IF StartsWith(p.query, "search") THEN p.query
              ELSE "search " \o p.query,
   output_mode |-> p.output_mode,
   count |-> p.max_count,
   earliest_time |-> IF Truthy(p.earliest_time) THEN p.earliest_time ELSE None,
   latest_time |-> IF Truthy(p.latest_time) THEN p.latest_time ELSE None]

\* runSearch from the search handler: the job is submitted on the current
\* service with searchParams.
runSearch(i, a) ==
  LET p == ParseSearchArgs(a)
      called == [Request(i, "search", Some(a)) EXCEPT ![i].args = Some(p)]
  IN IF splunkService = Null
     THEN inv' = [called EXCEPT ![i].pc = "done",
                    ![i].resp = Some(ToolError("Error executing search: ",
                                               NotInitializedInner))]
     ELSE inv' = [called EXCEPT ![i].pc = "submit",
                    ![i].calls = <<Call("search", ServiceLogin,
                                        SearchParams(p))>>]

\* The search tool is invoked with arguments a.
SearchTool(i, a) ==
  /\ inv[i].pc = "idle"
  /\ UNCHANGED script
  /\ UNCHANGED <<splunkService, handles>>
  /\ IF ~ValidSearchArgs(a)
     THEN Reject(i, "search", Some(a))
     ELSE IF ~Initialized
     THEN inv' = [Request(i, "search", Some(a)) EXCEPT
                    ![i].args = Some(ParseSearchArgs(a)), ![i].pc = "done",
                    ![i].resp = Some(ToolError("Error executing search: ",
                                               NotInitialized))]
     ELSE runSearch(i, a)

\* Mutant: the results are asked for without waiting for the job.
getSearchResultsNoTrack(i, job) ==
  IF job = None
  THEN Done(i, ToolError("Error executing search: ", NoJobError))
  ELSE inv' = [inv EXCEPT ![i].pc = "results", ![i].job = job,
                          ![i].calls = Append(@,
                             JobCall("results", job,
                                  [output_mode |-> inv[i].args[1].output_mode]))]

\* getSearchResults up to the track call, on the job runSearch resolved to.
getSearchResults(i, job) ==
  IF job = None
  THEN Done(i, ToolError("Error executing search: ", NoJobError))
  ELSE inv' = [inv EXCEPT ![i].pc = "track", ![i].job = job,
                          ![i].calls = Append(@, JobCall("track", job, None))]

\* Mutant: a failed submission drops the session.
SearchSubmitDoneClears(i, out) ==
  /\ inv[i].op = "search" /\ inv[i].pc = "submit"
  /\ UNCHANGED script
  /\ IF out.err # None
     THEN /\ splunkService' = Null
          /\ UNCHANGED handles
          /\ Done(i, ToolError("Error executing search: ", out.err[1]))
     ELSE /\ UNCHANGED <<splunkService, handles>>
          /\ getSearchResults(i, out.job)

\* The callback of service.search: out.err is None or Some(err), out.job
\* is the job or None.
SearchSubmitDone(i, out) ==
  /\ inv[i].op = "search" /\ inv[i].pc = "submit"
  /\ UNCHANGED script
  /\ UNCHANGED <<splunkService, handles>>
  /\ IF out.err # None
     THEN Done(i, ToolError("Error executing search: ", out.err[1]))
     ELSE getSearchResults(i, out.job)

\* Mutant: the results are always asked for as json.
SearchTrackDoneJson(i, err) ==
  /\ inv[i].op = "search" /\ inv[i].pc = "track"
  /\ UNCHANGED script
  /\ UNCHANGED <<splunkService, handles>>
  /\ IF err # None
     THEN Done(i, ToolError("Error executing search: ", err[1]))
     ELSE inv' = [inv EXCEPT ![i].pc = "results",
                    ![i].calls = Append(@, JobCall("results", inv[i].job,
                                                [output_mode |-> "json"]))]

\* The callback of job.track in getSearchResults.
SearchTrackDone(i, err) ==
  /\ inv[i].op = "search" /\ inv[i].pc = "track"
  /\ UNCHANGED script
  /\ UNCHANGED <<splunkService, handles>>
  /\ IF err # None
     THEN Done(i, ToolError("Error executing search: ", err[1]))
     ELSE inv' = [inv EXCEPT ![i].pc = "results",
                    ![i].calls = Append(@,
                       JobCall("results", inv[i].job,
                            [output_mode |-> inv[i].args[1].output_mode]))]

\* typeof results === "string" ? results : JSON.stringify(results, null, 2)
SearchText(results) ==
  IF IsString(results) THEN results ELSE JSONstringify(results)

\* Mutant: the results callback drops the error and settles nothing.
SearchResultsDoneNoReject(i, out) ==
  /\ inv[i].op = "search" /\ inv[i].pc = "results"
  /\ UNCHANGED script
  /\ UNCHANGED <<splunkService, handles>>
  /\ IF out.err # None
     THEN inv' = [inv EXCEPT ![i].pc = "hung"]
     ELSE Done(i, ToolResult(SearchText(out.results)))

\* The callback of job.results in getSearchResults.
SearchResultsDone(i, out) ==
  /\ inv[i].op = "search" /\ inv[i].pc = "results"
  /\ UNCHANGED script
  /\ UNCHANGED <<splunkService, handles>>
  /\ IF out.err # None
     THEN Done(i, ToolError("Error executing search: ", out.err[1]))
     ELSE Done(i, ToolResult(SearchText(out.results)))

\* ------------------------------------------------- saved searches, indexes
\* Mutant: the projection takes the description for the search text.
ProjectSavedSearchSwap(item) ==
  [name |-> item.name,
   search |-> item.description,
   description |-> item.search,
   earliest_time |-> IF item.dispatch = None THEN None
                     ELSE item.dispatch[1].earliest_time,
   latest_time |-> IF item.dispatch = None THEN None
                   ELSE item.dispatch[1].latest_time]

\* The projection of one saved search; dispatch may be missing.
ProjectSavedSearch(item) ==
  [name |-> item.name,
   search |-> item.search,
   description |-> item.description,
   earliest_time |-> IF item.dispatch = None THEN None
                     ELSE item.dispatch[1].earliest_time,
   latest_time |-> IF item.dispatch = None THEN None
                   ELSE item.dispatch[1].latest_time]

\* The projection of one index.
ProjectIndex(item) ==
  [name |-> item.name,
   totalEventCount |-> item.totalEventCount,
   currentDBSizeMB |-> item.currentDBSizeMB,
   maxDataSize |-> item.maxDataSize]

\* An array of projected records, or undefined.
ArrVal(kind, list) == <<"array", kind, list>>

\* JSON text of one projected record; a key whose value is undefined is
\* left out, as JSON.stringify does.
JsonSavedSearch(r) ==
  "{name:" \o r.name \o ",search:" \o r.search
  \o ",description:" \o r.description
  \o (IF r.earliest_time = None THEN ""
      ELSE ",earliest_time:" \o r.earliest_time[1])
  \o (IF r.latest_time = None THEN ""
      ELSE ",latest_time:" \o r.latest_time[1])
  \o "}"

JsonIndex(r) ==
  "{name:" \o r.name
  \o ",totalEventCount:" \o ToString(r.totalEventCount)
  \o ",currentDBSizeMB:" \o ToString(r.currentDBSizeMB)
  \o ",maxDataSize:" \o r.maxDataSize \o "}"

RECURSIVE JsonItems(_, _)
JsonItems(kind, list) ==
  IF list = <<>> THEN ""
  ELSE (IF kind = "saved" THEN JsonSavedSearch(Head(list))
        ELSE JsonIndex(Head(list)))
       \o (IF Len(list) > 1 THEN "," ELSE "")
       \o JsonItems(kind, Tail(list))

\* JSON.stringify of what getSavedSearches or getIndexes resolved to.
JsonList(v) ==
  IF v[1] = "undefined" THEN Undefined
  ELSE StrVal("[" \o JsonItems(v[2], v[3]) \o "]")

\* getSavedSearches resolves to savedSearches?.list().map(...).
SavedSearchList(coll) ==
  IF coll = None THEN Undefined
  ELSE ArrVal("saved", [k \in 1..Len(coll[1]) |->
                           ProjectSavedSearch(coll[1][k])])

\* getIndexes resolves to indexes?.list().map(...).
IndexList(coll) ==
  IF coll = None THEN Undefined
  ELSE ArrVal("index", [k \in 1..Len(coll[1]) |-> ProjectIndex(coll[1][k])])

\* getSavedSearches up to the fetch call.
getSavedSearches(i) ==
  IF splunkService = Null
  THEN inv' = [Request(i, "list_saved_searches", None) EXCEPT
                 ![i].pc = "done",
                 ![i].resp = Some(ToolError("Error listing saved searches: ",
                                            NotInitializedInner))]
  ELSE inv' = [Request(i, "list_saved_searches", None) EXCEPT
                 ![i].pc = "fetch",
                 ![i].calls = <<Call("savedSearches.fetch", ServiceLogin, None)>>]

\* The list_saved_searches tool is invoked.
ListSavedSearchesTool(i) ==
  /\ inv[i].pc = "idle"
  /\ UNCHANGED script
  /\ UNCHANGED <<splunkService, handles>>
  /\ IF ~Initialized
     THEN inv' = [Request(i, "list_saved_searches", None) EXCEPT
                    ![i].pc = "done",
                    ![i].resp = Some(ToolError("Error listing saved searches: ",
                                               NotInitialized))]
     ELSE getSavedSearches(i)

\* The callback of savedSearches().fetch in getSavedSearches: out.coll is
\* the collection (its list) or None.
SavedSearchesFetched(i, out) ==
  /\ inv[i].op = "list_saved_searches" /\ inv[i].pc = "fetch"
  /\ UNCHANGED script
  /\ UNCHANGED <<splunkService, handles>>
  /\ IF out.err # None
     THEN Done(i, ToolError("Error listing saved searches: ", out.err[1]))
     ELSE Done(i, ToolResult(JsonList(SavedSearchList(out.coll))))

\* getIndexes up to the fetch call.
getIndexes(i) ==
  IF splunkService = Null
  THEN inv' = [Request(i, "list_indexes", None) EXCEPT
                 ![i].pc = "done",
                 ![i].resp = Some(ToolError("Error listing indexes: ",
                                            NotInitializedInner))]
  ELSE inv' = [Request(i, "list_indexes", None) EXCEPT
                 ![i].pc = "fetch",
                 ![i].calls = <<Call("indexes.fetch", ServiceLogin, None)>>]

\* The list_indexes tool is invoked.
ListIndexesTool(i) ==
  /\ inv[i].pc = "idle"
  /\ UNCHANGED script
  /\ UNCHANGED <<splunkService, handles>>
  /\ IF ~Initialized
     THEN inv' = [Request(i, "list_indexes", None) EXCEPT
                    ![i].pc = "done",
                    ![i].resp = Some(ToolError("Error listing indexes: ",
                                               NotInitialized))]
     ELSE getIndexes(i)

\* Mutant: a failed fetch is tried again.
IndexesFetchedRetry(i, out) ==
  /\ inv[i].op = "list_indexes" /\ inv[i].pc = "fetch"
  /\ UNCHANGED script
  /\ UNCHANGED <<splunkService, handles>>
  /\ IF out.err # None
     THEN inv' = [inv EXCEPT ![i].calls =
                    Append(@, Call("indexes.fetch", OnObject, None))]
     ELSE Done(i, ToolResult(JsonList(IndexList(out.coll))))

\* The callback of indexes().fetch in getIndexes.
IndexesFetched(i, out) ==
  /\ inv[i].op = "list_indexes" /\ inv[i].pc = "fetch"
  /\ UNCHANGED script
  /\ UNCHANGED <<splunkService, handles>>
  /\ IF out.err # None
     THEN Done(i, ToolError("Error listing indexes: ", out.err[1]))
     ELSE Done(i, ToolResult(JsonList(IndexList(out.coll))))

\* ------------------------------------------------------- run_saved_search
\* Mutant: the lookup ignores the name and takes the first item.
ItemFirst(coll, name) ==
  IF coll = None \/ coll = Some(<<>>) THEN None ELSE Some(coll[1][1])

\* savedSearches?.item(name): the item of that name, or None.
Item(coll, name) ==
  IF coll = None THEN None
  ELSE LET hits == {k \in 1..Len(coll[1]) : coll[1][k].name = name}
       IN IF hits = {} THEN None
          ELSE Some(coll[1][CHOOSE k \in hits : \A m \in hits : k <= m])

\* Mutant: the options carry whatever the caller gave, empty or not.
DispatchOptionsGiven(earliestTime, latestTime) ==
  [earliest_time |-> earliestTime, latest_time |-> latestTime]

\* dispatchOptions as runSavedSearch builds it.
DispatchOptions(earliestTime, latestTime) ==
  [earliest_time |-> IF Truthy(earliestTime) THEN earliestTime ELSE None,
   latest_time |-> IF Truthy(latestTime) THEN latestTime ELSE None]

NotFound(name) == Error("Saved search '" \o name \o "' not found")

\* runSavedSearch up to the fetch call.
runSavedSearch(i, a) ==
  LET called == [Request(i, "run_saved_search", Some(a)) EXCEPT
                   ![i].args = Some(a)]
  IN IF splunkService = Null
     THEN inv' = [called EXCEPT ![i].pc = "done",
                    ![i].resp = Some(ToolError("Error running saved search: ",
                                               NotInitializedInner))]
     ELSE inv' = [called EXCEPT ![i].pc = "fetch",
                    ![i].calls = <<Call("savedSearches.fetch", ServiceLogin,
                                        None)>>]

\* The run_saved_search tool is invoked with arguments a.
RunSavedSearchTool(i, a) ==
  /\ inv[i].pc = "idle"
  /\ UNCHANGED script
  /\ UNCHANGED <<splunkService, handles>>
  /\ IF ~ValidRunSavedSearchArgs(a)
     THEN Reject(i, "run_saved_search", Some(a))
     ELSE IF ~Initialized
     THEN inv' = [Request(i, "run_saved_search", Some(a)) EXCEPT
                    ![i].args = Some(a), ![i].pc = "done",
                    ![i].resp = Some(ToolError("Error running saved search: ",
                                               NotInitialized))]
     ELSE runSavedSearch(i, a)

\* The callback of savedSearches().fetch in runSavedSearch: look the saved
\* search up and dispatch it.
RunFetchDone(i, out) ==
  /\ inv[i].op = "run_saved_search" /\ inv[i].pc = "fetch"
  /\ UNCHANGED script
  /\ UNCHANGED <<splunkService, handles>>
  /\ LET a == inv[i].args[1]
         savedSearch == Item(out.coll, a.name[1])
     IN IF out.err # None
        THEN Done(i, ToolError("Error running saved search: ", out.err[1]))
        ELSE IF savedSearch = None
        THEN Done(i, ToolError("Error running saved search: ",
                               NotFound(a.name[1])))
        ELSE inv' = [inv EXCEPT ![i].pc = "dispatch",
                       ![i].calls = Append(@,
                          Call("dispatch", OnObject,
                               [name |-> savedSearch[1].name,
                                options |-> DispatchOptions(a.earliest_time,
                                                            a.latest_time)]))]

\* Mutant: the job is tracked through a place all invocations share, which
\* holds the job of the invocation in slot 1.
RunDispatchDoneShared(i, out) ==
  /\ inv[i].op = "run_saved_search" /\ inv[i].pc = "dispatch"
  /\ UNCHANGED script
  /\ UNCHANGED <<splunkService, handles>>
  /\ IF out.err # None
     THEN Done(i, ToolError("Error running saved search: ", out.err[1]))
     ELSE IF out.job = None
     THEN inv' = [inv EXCEPT ![i].pc = "hung"]
     ELSE inv' = [inv EXCEPT ![i].pc = "track",
                    ![i].job = Some(<<out.job[1][1], 1>>),
                    ![i].calls = Append(@,
                       JobCall("track", Some(<<out.job[1][1], 1>>), None))]

\* The callback of savedSearch.dispatch.  With neither an error nor a job,
\* job.track throws inside the SDK's callback: the promise of
\* runSavedSearch is never settled and the handler never returns.
RunDispatchDone(i, out) ==
  /\ inv[i].op = "run_saved_search" /\ inv[i].pc = "dispatch"
  /\ UNCHANGED script
  /\ UNCHANGED <<splunkService, handles>>
  /\ IF out.err # None
     THEN Done(i, ToolError("Error running saved search: ", out.err[1]))
     ELSE IF out.job = None
     THEN inv' = [inv EXCEPT ![i].pc = "hung"]
     ELSE inv' = [inv EXCEPT ![i].pc = "track", ![i].job = out.job,
                    ![i].calls = Append(@, JobCall("track", out.job, None))]

\* Mutant: the results are asked for as csv.
RunTrackDoneCsv(i, err) ==
  /\ inv[i].op = "run_saved_search" /\ inv[i].pc = "track"
  /\ UNCHANGED script
  /\ UNCHANGED <<splunkService, handles>>
  /\ IF err # None
     THEN Done(i, ToolError("Error running saved search: ", err[1]))
     ELSE inv' = [inv EXCEPT ![i].pc = "results",
                    ![i].calls = Append(@, JobCall("results", inv[i].job,
                                                [output_mode |-> "csv"]))]

\* The callback of job.track in runSavedSearch.
RunTrackDone(i, err) ==
  /\ inv[i].op = "run_saved_search" /\ inv[i].pc = "track"
  /\ UNCHANGED script
  /\ UNCHANGED <<splunkService, handles>>
  /\ IF err # None
     THEN Done(i, ToolError("Error running saved search: ", err[1]))
     ELSE inv' = [inv EXCEPT ![i].pc = "results",
                    ![i].calls = Append(@, JobCall("results", inv[i].job,
                                                [output_mode |-> "json"]))]

\* The callback of job.results in runSavedSearch.
RunResultsDone(i, out) ==
  /\ inv[i].op = "run_saved_search" /\ inv[i].pc = "results"
  /\ UNCHANGED script
  /\ UNCHANGED <<splunkService, handles>>
  /\ IF out.err # None
     THEN Done(i, ToolError("Error running saved search: ", out.err[1]))
     ELSE Done(i, ToolResult(JSONstringify(out.results)))

\* -------------------------------------------------------------- resources
\* A resource result: { contents: [{ uri, text }] }
ResourceResult(uri, text) == [uri |-> uri, text |-> text]

\* Mutant: the status is taken from the login state.
ConnectionStatusResourceLogin(i) ==
  /\ inv[i].pc = "idle"
  /\ UNCHANGED script
  /\ UNCHANGED <<splunkService, handles>>
  /\ inv' = [Request(i, "connection_status", None) EXCEPT ![i].pc = "done",
               ![i].resp = Some(ResourceResult("splunk://status",
                  IF splunkService # Null /\ handles[splunkService] = "ok"
                  THEN StrVal("Connected") ELSE StrVal("Not connected")))]

\* The connection_status resource is read.
ConnectionStatusResource(i) ==
  /\ inv[i].pc = "idle"
  /\ UNCHANGED script
  /\ UNCHANGED <<splunkService, handles>>
  /\ inv' = [Request(i, "connection_status", None) EXCEPT ![i].pc = "done",
               ![i].resp = Some(ResourceResult("splunk://status",
                  IF splunkService # Null THEN StrVal("Connected")
                  ELSE StrVal("Not connected")))]

\* Mutant: the projection leaves the mode out.
ProjectServerInfoNoMode(info) ==
  IF info = None THEN "{}"
  ELSE "{version:" \o info[1].version \o ",build:" \o info[1].build
       \o ",serverName:" \o info[1].serverName
       \o ",licenseState:" \o info[1].licenseState \o "}"

\* The projection of the server properties; info may be missing.
ProjectServerInfo(info) ==
  IF info = None THEN "{}"
  ELSE "{version:" \o info[1].version \o ",build:" \o info[1].build
       \o ",serverName:" \o info[1].serverName
       \o ",licenseState:" \o info[1].licenseState
       \o ",mode:" \o info[1].mode \o "}"

\* The answer of the server_info resource to an error: text, no error flag.
InfoError(e) ==
  ResourceResult("splunk://info",
                 StrVal("Error getting server info: " \o ErrorText(e)))

\* getServerInfo up to the serverInfo call.
getServerInfo(i) ==
  IF splunkService = Null
  THEN inv' = [Request(i, "server_info", None) EXCEPT ![i].pc = "done",
                 ![i].resp = Some(InfoError(NotInitializedInner))]
  ELSE inv' = [Request(i, "server_info", None) EXCEPT ![i].pc = "info",
                 ![i].calls = <<Call("serverInfo", ServiceLogin, None)>>]

\* The server_info resource is read.
ServerInfoResource(i) ==
  /\ inv[i].pc = "idle"
  /\ UNCHANGED script
  /\ UNCHANGED <<splunkService, handles>>
  /\ IF ~Initialized
     THEN inv' = [Request(i, "server_info", None) EXCEPT ![i].pc = "done",
                    ![i].resp = Some(InfoError(NotInitializedInner))]
     ELSE getServerInfo(i)

\* The callback of service.serverInfo in getServerInfo.
ServerInfoDone(i, out) ==
  /\ inv[i].op = "server_info" /\ inv[i].pc = "info"
  /\ UNCHANGED script
  /\ UNCHANGED <<splunkService, handles>>
  /\ IF out.err # None
     THEN Done(i, InfoError(out.err[1]))
     ELSE Done(i, ResourceResult("splunk://info",
                    StrVal(ProjectServerInfo(out.info))))

\* ------------------------------------------------------------ the response
\* The response of slot i is sent and the slot is free again.
Return(i) ==
  /\ inv[i].pc = "done"
  /\ UNCHANGED script
  /\ inv' = [inv EXCEPT ![i] = Idle]
  /\ handles' = Collect(handles, splunkService, inv')
  /\ UNCHANGED splunkService

\* ------------------------------------------------- what the SDK may answer
SplunkError == Error("Splunk error")
PlainError == [isError |-> FALSE, message |-> ""]   \* a rejection that is no Error
Errors == {SplunkError, PlainError}

SavedDaily ==
  [name |-> "Daily", search |-> "index=main", description |-> "daily",
   dispatch |-> Some([earliest_time |-> Some("-24h"), latest_time |-> Some("now")])]
SavedAdhoc ==
  [name |-> "Adhoc", search |-> "search *", description |-> "",
   dispatch |-> None]
IndexMain ==
  [name |-> "main", totalEventCount |-> 1000, currentDBSizeMB |-> 1024,
   maxDataSize |-> "auto"]
IndexInternal ==
  [name |-> "_internal", totalEventCount |-> 500, currentDBSizeMB |-> 512,
   maxDataSize |-> "auto"]
ServerProps ==
  [version |-> "8.2.0", build |-> "12345", serverName |-> "splunk",
   licenseState |-> "OK", mode |-> "normal"]

\* The answers of the SDK: every one of them in AllAnswers, one of each
\* kind in Answers.
AllAnswers ==
  [errors |-> Errors,
   jobs |-> {None, Some("job")},
   results |-> {Undefined, StrVal("a,b"), ObjVal("rows")},
   saved |-> {None, Some(<<>>), Some(<<SavedDaily>>),
              Some(<<SavedDaily, SavedAdhoc>>)},
   indexes |-> {None, Some(<<>>), Some(<<IndexMain, IndexInternal>>)},
   info |-> {None, Some(ServerProps)}]
Answers ==
  [errors |-> {SplunkError},
   jobs |-> {None, Some("job")},
   results |-> {ObjVal("rows")},
   saved |-> {Some(<<SavedDaily>>)},
   indexes |-> {Some(<<IndexMain, IndexInternal>>)},
   info |-> {Some(ServerProps)}]

ErrOutcomes(A) == {Some(e) : e \in A.errors}
LoginOutcomes(A) == {None} \cup ErrOutcomes(A)
\* A submission or a dispatch hands over a job of its own: the job of the
\* invocation in slot i carries i.
JobOutcomes(A, i) ==
  {[err |-> e, job |-> None] : e \in ErrOutcomes(A)}
  \cup {[err |-> None,
         job |-> IF j = None THEN None ELSE Some(<<j[1], i>>)] : j \in A.jobs}
TrackOutcomes(A) == {None} \cup ErrOutcomes(A)
ResultsOutcomes(A) ==
  {[err |-> e, results |-> Undefined] : e \in ErrOutcomes(A)}
  \cup {[err |-> None, results |-> r] : r \in A.results}
SavedOutcomes(A) ==
  {[err |-> e, coll |-> None] : e \in ErrOutcomes(A)}
  \cup {[err |-> None, coll |-> c] : c \in A.saved}
IndexOutcomes(A) ==
  {[err |-> e, coll |-> None] : e \in ErrOutcomes(A)}
  \cup {[err |-> None, coll |-> c] : c \in A.indexes}
InfoOutcomes(A) ==
  {[err |-> e, info |-> None] : e \in ErrOutcomes(A)}
  \cup {[err |-> None, info |-> n] : n \in A.info}

\* ----------------------------------------------------- what callers may send
ConfigureArgs ==
  {[host |-> Some("splunk"), port |-> None, username |-> Some("admin"),
    password |-> Some("changeme"), scheme |-> None]}
SearchArgs ==
  {[query |-> Some("index=main"), earliest_time |-> None, latest_time |-> None,
    max_count |-> None, output_mode |-> None]}
RunSavedSearchArgs ==
  {[name |-> Some(n), earliest_time |-> None, latest_time |-> None] :
     n \in {"Daily", "Missing"}}

AllConfigureArgs ==
  [host : {None, Some("splunk")}, port : {None, Some(8000)},
   username : {None, Some("admin")},
   password : {None, Some("changeme"), Some("secret")},
   scheme : {None, Some("http"), Some("ftp")}]
AllSearchArgs ==
  [query : {None, Some(""), Some("index=main"), Some("search index=main"),
            Some("searchlog")},
   earliest_time : {None, Some(""), Some("-1h")},
   latest_time : {None, Some(""), Some("now")},
   max_count : {None, Some(Num(0)), Some(Num(1)), Some(<<3, 2>>),
                Some(Num(10000)), Some(Num(10001))},
   output_mode : {None, Some("json"), Some("csv"), Some("xml"), Some("html")}]
AllRunSavedSearchArgs ==
  [name : {None, Some("Daily"), Some("Missing")},
   earliest_time : {None, Some(""), Some("-1h")},
   latest_time : {None, Some(""), Some("now")}]

\* ------------------------------------------------------- the specifications
\* An invocation arrives in slot i.
Invoke(i, CA, SA, RA) ==
  \/ \E a \in CA : ConfigureTool(i, a)
  \/ \E a \in SA : SearchTool(i, a)
  \/ ListSavedSearchesTool(i)
  \/ ListIndexesTool(i)
  \/ \E a \in RA : RunSavedSearchTool(i, a)
  \/ ConnectionStatusResource(i)
  \/ ServerInfoResource(i)

\* The SDK completes the call slot i is waiting for, with an answer of A.
Complete(i, A) ==
  \/ \E out \in LoginOutcomes(A) : LoginDone(i, out)
  \/ \E out \in JobOutcomes(A, i) : SearchSubmitDone(i, out)
  \/ \E err \in TrackOutcomes(A) : SearchTrackDone(i, err)
  \/ \E out \in ResultsOutcomes(A) : SearchResultsDone(i, out)
  \/ \E out \in SavedOutcomes(A) : SavedSearchesFetched(i, out)
  \/ \E out \in IndexOutcomes(A) : IndexesFetched(i, out)
  \/ \E out \in SavedOutcomes(A) : RunFetchDone(i, out)
  \/ \E out \in JobOutcomes(A, i) : RunDispatchDone(i, out)
  \/ \E err \in TrackOutcomes(A) : RunTrackDone(i, err)
  \/ \E out \in ResultsOutcomes(A) : RunResultsDone(i, out)
  \/ \E out \in InfoOutcomes(A) : ServerInfoDone(i, out)

\* Invocations interleave at their awaits.
Next ==
  \E i \in Slots :
    \/ Invoke(i, ConfigureArgs, SearchArgs, RunSavedSearchArgs)
    \/ Complete(i, Answers)
    \/ Return(i)

Spec == Init /\ [][Next]_vars

\* One invocation at a time, over the whole range of arguments and answers.
NextArgs ==
  \/ Invoke(1, AllConfigureArgs, AllSearchArgs, AllRunSavedSearchArgs)
  \/ Complete(1, AllAnswers)
  \/ Return(1)

SpecArgs == Init /\ [][NextArgs]_vars

\* The SDK completes every call with an error or with what was asked for
\* (a submission or a dispatch hands over a job).
LiveAnswers == [Answers EXCEPT !.jobs = {Some("job")}]

NextLive ==
  \E i \in Slots :
    \/ Invoke(i, ConfigureArgs, SearchArgs, RunSavedSearchArgs)
    \/ Complete(i, LiveAnswers)
    \/ Return(i)

\* Every pending call is completed in the end, and the event loop sends
\* every response; nothing obliges a caller to invoke anything.
SpecLive ==
  /\ Init /\ [][NextLive]_vars
  /\ \A i \in Slots : WF_vars(Complete(i, LiveAnswers)) /\ WF_vars(Return(i))

\* A run of validate.sh.
NextValidate == CheckStep \/ IfStep \/ InlineStep \/ SummaryStep

SpecValidate == Init /\ [][NextValidate]_vars

\* ---------------------------------------------------------------- claims
DataTools ==
  {"search", "list_saved_searches", "list_indexes", "run_saved_search"}

ErrorPrefix(op) ==
  CASE op = "search" -> "Error executing search: "
    [] op = "configure" -> "Failed to connect to Splunk: "
    [] op = "list_saved_searches" -> "Error listing saved searches: "
    [] op = "list_indexes" -> "Error listing indexes: "
    [] op = "run_saved_search" -> "Error running saved search: "
    [] OTHER -> ""

\* The session-state error of tool op.
SessionError(op) ==
  [isError |-> TRUE,
   text |-> StrVal(ErrorPrefix(op) \o
     "Splunk service not initialized. Please configure connection first.")]

\* In this step the handler of a data tool is called in slot i.
HandlerCalled(i) ==
  /\ inv[i].pc = "idle"
  /\ inv'[i].op \in DataTools
  /\ inv'[i].resp # Some(InvalidParams)

\* In this step the login of the configure in slot i completes.
LoginCompletes(i) ==
  inv[i].op = "configure" /\ inv[i].pc = "login" /\ inv'[i].pc = "done"

\* C1: when the handler of search, list_saved_searches, list_indexes or
\* run_saved_search is called while this.splunkService is null, the
\* invocation ends at once with the error flag and the text of the
\* uninitialized service, and it has made no call to the SDK.
C1_UnsetSessionError ==
  [][\A i \in Slots :
       (HandlerCalled(i) /\ splunkService = Null)
       => /\ inv'[i].pc = "done"
          /\ inv'[i].resp = Some(SessionError(inv'[i].op))
          /\ inv'[i].calls = <<>>]_vars

C1_Witness ==
  /\ splunkService = Null
  /\ \E i \in Slots :
       /\ inv[i].op = "list_indexes" /\ inv[i].pc = "done"
       /\ inv[i].resp = Some(SessionError("list_indexes"))
  /\ \E i \in Slots :
       /\ inv[i].op = "search" /\ inv[i].pc = "done"
       /\ inv[i].resp = Some(SessionError("search"))

\* C2: a configure that began with the session unset ends, when its login
\* succeeds, with the session set and a success response, and when its login fails with the session unset and an error
\* response; a search called while the session is unset returns the
\* session-state error without a call.
C2_ConfigureFromUnset ==
  [][\A i \in Slots :
       /\ (LoginCompletes(i) /\ inv[i].before = "unset")
          => IF handles'[inv[i].h] = "ok"
             THEN /\ splunkService' # Null
                  /\ ~inv'[i].resp[1].isError
             ELSE /\ splunkService' = Null
                  /\ inv'[i].resp[1].isError
       /\ (HandlerCalled(i) /\ inv'[i].op = "search" /\ splunkService = Null)
          => /\ inv'[i].resp = Some(SessionError("search"))
             /\ inv'[i].calls = <<>>]_vars

\* C3: while the login of a configure is pending, this.splunkService does
\* not hold the Service that configure created.
C3_StoredAfterLogin ==
  \A i \in Slots :
    (inv[i].op = "configure" /\ inv[i].pc = "login") => splunkService # inv[i].h

\* C4: a search whose max_count is below 1 or above 10000 is rejected by
\* the schema: the handler is not called and no call reaches the SDK.
C4_MaxCountRejected ==
  \A i \in Slots :
    (/\ inv[i].op = "search"
     /\ inv[i].input[1].max_count # None
     /\ \/ ~Geq(inv[i].input[1].max_count[1], Num(1))
        \/ ~Leq(inv[i].input[1].max_count[1], Num(10000)))
    => /\ inv[i].pc = "done"
       /\ inv[i].resp = Some(InvalidParams)
       /\ inv[i].args = None
       /\ inv[i].calls = <<>>

C4_Witness ==
  \E i \in Slots :
    /\ inv[i].op = "search" /\ inv[i].pc = "done"
    /\ inv[i].input[1].query = Some("index=main")
    /\ inv[i].input[1].max_count = Some(Num(10001))
    /\ inv[i].input[1].output_mode = None
    /\ inv[i].resp = Some(InvalidParams)
    /\ splunkService # Null

\* In this step the SDK reports error e to the callback slot i waits for.
ErrorReported(i, e) ==
  \/ LoginDone(i, e)
  \/ SearchSubmitDone(i, [err |-> e, job |-> None])
  \/ SearchTrackDone(i, e)
  \/ SearchResultsDone(i, [err |-> e, results |-> Undefined])
  \/ SavedSearchesFetched(i, [err |-> e, coll |-> None])
  \/ IndexesFetched(i, [err |-> e, coll |-> None])
  \/ RunFetchDone(i, [err |-> e, coll |-> None])
  \/ RunDispatchDone(i, [err |-> e, job |-> None])
  \/ RunTrackDone(i, e)
  \/ RunResultsDone(i, [err |-> e, results |-> Undefined])

\* C5: a tool invocation that fails, by the missing session or by an error
\* the SDK reports to any of its callbacks, ends in that step with a
\* response whose error flag is set and whose text is the tool's prefix
\* followed by the message.
C5_FailureIsErrorResponse ==
  [][\A i \in Slots :
       (\/ HandlerCalled(i) /\ splunkService = Null
        \/ \E e \in ErrOutcomes(AllAnswers) : ErrorReported(i, e))
       => /\ inv'[i].pc = "done"
          /\ inv'[i].resp[1].isError
          /\ IsString(inv'[i].resp[1].text)
          /\ StartsWith(inv'[i].resp[1].text[2], ErrorPrefix(inv'[i].op))
          /\ Len(inv'[i].resp[1].text[2]) > Len(ErrorPrefix(inv'[i].op))]_vars

C5_Witness ==
  \E i \in Slots :
    /\ inv[i].op = "run_saved_search" /\ inv[i].pc = "done"
    /\ Len(inv[i].calls) = 4
    /\ inv[i].resp =
         Some([isError |-> TRUE,
               text |-> StrVal("Error running saved search: [object Object]")])

\* The collection c has an item of that name.
HasItem(c, name) ==
  c # None /\ \E k \in 1..Len(c[1]) : c[1][k].name = name

\* C6: when the collection run_saved_search fetched has no item of the
\* given name, the invocation ends with the error text "Saved search
\* '<name>' not found" and has made no dispatch, track or results call.
C6_NotFoundNoDispatch ==
  [][\A i \in Slots : \A c \in AllAnswers.saved :
       (/\ RunFetchDone(i, [err |-> None, coll |-> c])
        /\ ~HasItem(c, inv[i].args[1].name[1]))
       => /\ inv'[i].pc = "done"
          /\ inv'[i].resp =
               Some([isError |-> TRUE,
                     text |-> StrVal("Error running saved search: Saved search '"
                                     \o inv[i].args[1].name[1] \o "' not found")])
          /\ \A k \in 1..Len(inv'[i].calls) :
               inv'[i].calls[k].call = "savedSearches.fetch"]_vars

C6_Witness ==
  \E i \in Slots :
    /\ inv[i].op = "run_saved_search" /\ inv[i].pc = "done"
    /\ inv[i].args # None
    /\ inv[i].args[1].name = Some("Missing")
    /\ Len(inv[i].calls) = 1
    /\ inv[i].resp =
         Some([isError |-> TRUE,
               text |-> StrVal("Error running saved search: "
                               \o "Saved search 'Missing' not found")])

\* C7: a configure that began with a logged-in session ends, when its
\* login succeeds, with this.splunkService holding the Service it created,
\* and when its login fails with this.splunkService null.
C7_ConfigureReplaces ==
  [][\A i \in Slots :
       (LoginCompletes(i) /\ inv[i].before = "ok")
       => IF handles'[inv[i].h] = "ok"
          THEN splunkService' = inv[i].h
          ELSE splunkService' = Null]_vars

\* C8: this.splunkService changes only in a step of configure: when the
\* configure handler creates the Service or when its login callback runs.
C8_OnlyConfigureWrites ==
  [][splunkService' # splunkService
     => \E i \in Slots :
          /\ inv'[i].op = "configure"
          /\ \/ inv[i].pc = "idle" /\ inv'[i].pc = "login"
             \/ inv[i].pc = "login" /\ inv'[i].pc = "done"]_vars

C8_Witness ==
  /\ splunkService # Null
  /\ \E i \in Slots :
       /\ inv[i].op = "search" /\ inv[i].pc = "done"
       /\ inv[i].calls # <<>>
       /\ inv[i].resp[1].isError

\* C9: reading the connection_status resource answers "Connected" when
\* this.splunkService is set and "Not connected" when it is null, makes no
\* call to the SDK and leaves this.splunkService as it was.
C9_StatusText ==
  [][\A i \in Slots :
       (inv[i].pc = "idle" /\ inv'[i].op = "connection_status")
       => /\ inv'[i].pc = "done"
          /\ inv'[i].resp[1].text =
               (IF splunkService # Null THEN StrVal("Connected")
                ELSE StrVal("Not connected"))
          /\ inv'[i].calls = <<>>
          /\ splunkService' = splunkService]_vars

C9_Witness ==
  \E i \in Slots : \E j \in Slots :
    /\ inv[i].op = "connection_status" /\ inv[i].pc = "done"
    /\ inv[i].resp[1].text = StrVal("Connected")
    /\ inv[j].op = "configure" /\ inv[j].pc = "login"

\* The output mode in effect for the search in slot i.
ModeInEffect(i) ==
  IF inv[i].input[1].output_mode = None THEN "json"
  ELSE inv[i].input[1].output_mode[1]

\* Every submission and every results call of slot i carries the mode in
\* effect.
ModeSent(i) ==
  \A k \in 1..Len(inv[i].calls) :
    inv[i].calls[k].call \in {"search", "results"}
    => inv[i].calls[k].params.output_mode = ModeInEffect(i)

\* C10: a search without output_mode uses "json"; the mode in effect is
\* what the submission and the results call carry; results that are a
\* string become the response text as they are.
C10_OutputMode ==
  [][\A i \in Slots :
       /\ (inv'[i].op = "search" /\ inv'[i].args # None) => ModeSent(i)'
       /\ \A r \in AllAnswers.results :
            (IsString(r) /\ SearchResultsDone(i, [err |-> None, results |-> r]))
            => inv'[i].resp = Some([isError |-> FALSE, text |-> r])]_vars

C10_Witness ==
  \E i \in Slots :
    /\ inv[i].op = "search" /\ inv[i].pc = "done"
    /\ inv[i].input[1].output_mode = None
    /\ Len(inv[i].calls) = 3
    /\ inv[i].calls[1].params.output_mode = "json"
    /\ inv[i].calls[3].params.output_mode = "json"
    /\ inv[i].resp = Some([isError |-> FALSE, text |-> StrVal("a,b")])

\* The records rs are one per item of the list items, in its order, each
\* with exactly the fields keys and with the item's values for same.
Projected(rs, items, keys, same) ==
  /\ Len(rs) = Len(items)
  /\ \A k \in 1..Len(items) :
       /\ DOMAIN rs[k] = keys
       /\ \A f \in same : rs[k][f] = items[k][f]

\* C11: when the fetch of list_saved_searches or list_indexes hands over a
\* collection, the response is the JSON text of one record per item, in
\* the collection's order, with the fields {name, search, description,
\* earliest_time, latest_time} (name and search text as in the item) for a
\* saved search and {name, totalEventCount, currentDBSizeMB, maxDataSize}
\* (all as in the item) for an index.
C11_ListProjection ==
  [][\A i \in Slots :
       /\ \A c \in AllAnswers.saved :
            (c # None /\ SavedSearchesFetched(i, [err |-> None, coll |-> c]))
            => LET rs == SavedSearchList(c)[3]
               IN /\ Projected(rs, c[1],
                               {"name", "search", "description",
                                "earliest_time", "latest_time"},
                               {"name", "search"})
                  /\ inv'[i].resp =
                       Some([isError |-> FALSE,
                             text |-> JsonList(ArrVal("saved", rs))])
       /\ \A c \in AllAnswers.indexes :
            (c # None /\ IndexesFetched(i, [err |-> None, coll |-> c]))
            => LET rs == IndexList(c)[3]
               IN /\ Projected(rs, c[1],
                               {"name", "totalEventCount", "currentDBSizeMB",
                                "maxDataSize"},
                               {"name", "totalEventCount", "currentDBSizeMB",
                                "maxDataSize"})
                  /\ inv'[i].resp =
                       Some([isError |-> FALSE,
                             text |-> JsonList(ArrVal("index", rs))])]_vars

C11_Witness ==
  \E i \in Slots :
    /\ inv[i].op = "list_saved_searches" /\ inv[i].pc = "done"
    /\ inv[i].resp =
         Some([isError |-> FALSE,
               text |-> StrVal("[{name:Daily,search:index=main,"
                               \o "description:daily,earliest_time:-24h,"
                               \o "latest_time:now},{name:Adhoc,"
                               \o "search:search *,description:}]")])


EndsWith(s, suffix) ==
  Len(s) >= Len(suffix)
  /\ SubSeq(s, Len(s) - Len(suffix) + 1, Len(s)) = suffix

C13_CapOnResultsRequest ==
  \A i \in Slots :
    inv[i].op = "search"
    => \A k \in 1..Len(inv[i].calls) :
         inv[i].calls[k].call = "results"
         => /\ "count" \in DOMAIN inv[i].calls[k].params
            /\ inv[i].calls[k].params.count = inv[i].args[1].max_count


Tools == DataTools \cup {"configure"}

\* C14: the response of a tool invocation that ends without the error
\* flag has a text that is a string.
C14_SuccessTextIsString ==
  \A i \in Slots :
    (/\ inv[i].op \in Tools /\ inv[i].pc = "done"
     /\ inv[i].resp # Some(InvalidParams)
     /\ ~inv[i].resp[1].isError)
    => IsString(inv[i].resp[1].text)


\* The configure in slot i was sent with host, username and password only.
OnlyRequired(i) ==
  /\ inv[i].op = "configure"
  /\ inv[i].input[1].host # None
  /\ inv[i].input[1].username # None
  /\ inv[i].input[1].password # None
  /\ inv[i].input[1].port = None
  /\ inv[i].input[1].scheme = None

\* C15: a configure with only host, username and password is accepted; the
\* Service is created with port 8089 and scheme https, and the success
\* text names https and 8089.
C15_ConfigureDefaults ==
  \A i \in Slots :
    OnlyRequired(i)
    => /\ inv[i].resp # Some(InvalidParams)
       /\ Len(inv[i].calls) >= 1
       /\ inv[i].calls[1].call = "new Service"
       /\ inv[i].calls[1].params.port = 8089
       /\ inv[i].calls[1].params.scheme = "https"
       /\ (inv[i].pc = "done" /\ ~inv[i].resp[1].isError)
          => inv[i].resp[1].text =
               StrVal("Successfully connected to Splunk at https://"
                      \o inv[i].input[1].host[1] \o ":8089")

C15_Witness ==
  \E i \in Slots :
    /\ OnlyRequired(i) /\ inv[i].pc = "done"
    /\ inv[i].resp =
         Some([isError |-> FALSE,
               text |-> StrVal("Successfully connected to Splunk at "
                               \o "https://splunk:8089")])


\* The number n, a fraction, is an integer.
IsInteger(n) == n[1] % n[2] = 0

\* C16: a search whose max_count is not an integer is rejected by the
\* schema: the handler is not called and no call reaches the SDK.
C16_MaxCountInteger ==
  \A i \in Slots :
    (/\ inv[i].op = "search"
     /\ inv[i].input[1].max_count # None
     /\ ~IsInteger(inv[i].input[1].max_count[1]))
    => /\ inv[i].pc = "done"
       /\ inv[i].resp = Some(InvalidParams)
       /\ inv[i].calls = <<>>


\* The response of the server_info read in slot i is contents with text.
InfoText(i, text) ==
  /\ inv'[i].pc = "done"
  /\ inv'[i].resp = Some([uri |-> "splunk://info", text |-> StrVal(text)])

\* C17: a read of the server_info resource always ends with contents whose
\* text is a string: with this.splunkService null, at once, without a call
\* and with the text of the uninitialized service; when serverInfo reports
\* an error, with the text of that error; otherwise with the JSON of
\* version, build, serverName, licenseState and mode (fields the SDK did
\* not deliver are left out, as JSON does with undefined).
C17_ServerInfoNeverRaises ==
  [][\A i \in Slots :
       /\ (inv[i].pc = "idle" /\ inv'[i].op = "server_info"
           /\ splunkService = Null)
          => /\ InfoText(i, "Error getting server info: "
                            \o "Splunk service not initialized")
             /\ inv'[i].calls = <<>>
       /\ \A e \in AllAnswers.errors :
            ServerInfoDone(i, [err |-> Some(e), info |-> None])
            => InfoText(i, "Error getting server info: "
                           \o (IF e.isError THEN e.message
                               ELSE "[object Object]"))
       /\ \A n \in AllAnswers.info :
            ServerInfoDone(i, [err |-> None, info |-> n])
            => InfoText(i, IF n = None THEN "{}"
                           ELSE "{version:" \o n[1].version
                                \o ",build:" \o n[1].build
                                \o ",serverName:" \o n[1].serverName
                                \o ",licenseState:" \o n[1].licenseState
                                \o ",mode:" \o n[1].mode \o "}")]_vars

C17_Witness ==
  \E i \in Slots :
    /\ inv[i].op = "server_info" /\ inv[i].pc = "done"
    /\ Len(inv[i].calls) = 1
    /\ inv[i].resp =
         Some([uri |-> "splunk://info",
               text |-> StrVal("Error getting server info: Splunk error")])


\* The configure arguments a are invalid: a scheme that is neither http nor
\* https, or no host, no username or no password.
InvalidConfigure(a) ==
  \/ a.scheme # None /\ a.scheme[1] \notin {"http", "https"}
  \/ a.host = None
  \/ a.username = None
  \/ a.password = None

\* C18: a configure with invalid arguments is rejected by the schema: no
\* Service is created, no login is called and this.splunkService keeps its
\* value.
C18_InvalidConfigureRejected ==
  [][\A i \in Slots : \A a \in AllConfigureArgs :
       (InvalidConfigure(a) /\ ConfigureTool(i, a))
       => /\ inv'[i].pc = "done"
          /\ inv'[i].resp = Some(InvalidParams)
          /\ inv'[i].calls = <<>>
          /\ inv'[i].h = Null
          /\ handles' = handles
          /\ splunkService' = splunkService]_vars

C18_Witness ==
  \E i \in Slots :
    /\ inv[i].op = "configure" /\ inv[i].pc = "done"
    /\ inv[i].input[1].scheme = Some("ftp")
    /\ inv[i].input[1].host # None
    /\ inv[i].input[1].username # None
    /\ inv[i].input[1].password # None
    /\ inv[i].resp = Some(InvalidParams)
    /\ splunkService # Null
    /\ handles[splunkService] = "ok"


\* The names of the calls in the sequence cs.
Names(cs) == [k \in 1..Len(cs) |-> cs[k].call]

\* The sequence p is a prefix of the sequence q.
IsPrefix(p, q) == Len(p) <= Len(q) /\ p = SubSeq(q, 1, Len(p))

\* In this step slot i makes the call of that name.
Calls(i, name) ==
  /\ Len(inv'[i].calls) = Len(inv[i].calls) + 1
  /\ inv'[i].calls[Len(inv'[i].calls)].call = name

\* C19: the calls of one search are search, track, results in this order,
\* each at most once; track is called in the step in which the submission
\* hands over a job without error, results in the step in which track
\* completes without error; an error reported at any stage ends the
\* invocation without a further call.
C19_SearchOrder ==
  [][\A i \in Slots :
       inv'[i].op = "search"
       => /\ IsPrefix(Names(inv'[i].calls), <<"search", "track", "results">>)
          /\ Calls(i, "track")
             => \E out \in JobOutcomes(AllAnswers, i) :
                  out.job # None /\ SearchSubmitDone(i, out)
          /\ Calls(i, "results") => SearchTrackDone(i, None)
          /\ \A e \in ErrOutcomes(AllAnswers) :
               ErrorReported(i, e)
               => inv'[i].calls = inv[i].calls /\ inv'[i].pc = "done"]_vars

C19_Witness ==
  \E i \in Slots :
    /\ inv[i].op = "search" /\ inv[i].pc = "done"
    /\ Names(inv[i].calls) = <<"search", "track">>
    /\ inv[i].resp =
         Some([isError |-> TRUE,
               text |-> StrVal("Error executing search: Splunk error")])


\* C20: the calls of one run_saved_search are fetch, dispatch, track,
\* results in this order, each at most once; dispatch is called, on the
\* item of the given name, in the step in which the fetch hands over a
\* collection that has it; track in the step in which dispatch hands over
\* a job without error; results, with output mode json, in the step in
\* which track completes without error; an error reported at any stage
\* ends the invocation without a further call.
C20_RunSavedSearchOrder ==
  [][\A i \in Slots :
       inv'[i].op = "run_saved_search"
       => /\ IsPrefix(Names(inv'[i].calls),
                      <<"savedSearches.fetch", "dispatch", "track", "results">>)
          /\ Calls(i, "dispatch")
             => /\ \E c \in AllAnswers.saved :
                     /\ HasItem(c, inv[i].args[1].name[1])
                     /\ RunFetchDone(i, [err |-> None, coll |-> c])
                /\ inv'[i].calls[2].params.name = inv[i].args[1].name[1]
          /\ Calls(i, "track")
             => \E out \in JobOutcomes(AllAnswers, i) :
                  out.job # None /\ RunDispatchDone(i, out)
          /\ Calls(i, "results")
             => /\ RunTrackDone(i, None)
                /\ inv'[i].calls[4].params = [output_mode |-> "json"]
          /\ \A e \in ErrOutcomes(AllAnswers) :
               ErrorReported(i, e)
               => inv'[i].calls = inv[i].calls /\ inv'[i].pc = "done"]_vars

C20_Witness ==
  \E i \in Slots :
    /\ inv[i].op = "run_saved_search" /\ inv[i].pc = "done"
    /\ inv[i].input[1].earliest_time = Some("-1h")
    /\ Names(inv[i].calls) =
         <<"savedSearches.fetch", "dispatch", "track", "results">>
    /\ inv[i].calls[2].params.name = "Daily"
    /\ inv[i].calls[4].params.output_mode = "json"
    /\ inv[i].resp = Some([isError |-> FALSE, text |-> StrVal("{rows}")])


\* The response r reports an error: a tool result with the error flag, or
\* the contents of the server_info resource with the error text.
IsErrorResponse(r) ==
  IF "isError" \in DOMAIN r THEN r.isError
  ELSE StartsWith(r.text[2], "Error getting server info: ")

\* C21: no invocation makes the same kind of SDK call twice, and the first
\* error the SDK reports ends the invocation, in that step and without a
\* further call, with an error response.
C21_NoRetries ==
  [][\A i \in Slots :
       /\ \A k, m \in 1..Len(inv'[i].calls) :
            inv'[i].calls[k].call = inv'[i].calls[m].call => k = m
       /\ \A e \in ErrOutcomes(AllAnswers) :
            (\/ ErrorReported(i, e)
             \/ ServerInfoDone(i, [err |-> e, info |-> None]))
            => /\ inv'[i].pc = "done"
               /\ inv'[i].calls = inv[i].calls
               /\ IsErrorResponse(inv'[i].resp[1])]_vars

C21_Witness ==
  \E i \in Slots :
    /\ inv[i].op = "list_indexes" /\ inv[i].pc = "done"
    /\ Names(inv[i].calls) = <<"indexes.fetch">>
    /\ inv[i].resp =
         Some([isError |-> TRUE,
               text |-> StrVal("Error listing indexes: Splunk error")])


\* Where a handler is suspended on a call to the SDK.
Waiting ==
  {"login", "submit", "track", "results", "fetch", "dispatch", "info"}

\* C22: when the SDK completes every call with a result or an error, every
\* invocation and every resource read gets to its response and returns
\* it; a response is set once; and a handler suspended on a call moves
\* only when the SDK completes that call (there is no timeout).
C22_Termination ==
  /\ \A i \in Slots : (inv[i].pc # "idle") ~> (inv[i].pc = "idle")
  /\ [][\A i \in Slots :
          /\ inv[i].resp # None => inv'[i].resp \in {inv[i].resp, None}
          /\ inv'[i].resp # None => inv'[i].pc = "done"
          /\ (inv[i].pc \in Waiting /\ inv'[i] # inv[i])
             => Complete(i, AllAnswers)]_vars

C22_Witness ==
  \E i \in Slots :
    /\ inv[i].op = "search" /\ inv[i].pc = "done"
    /\ Names(inv[i].calls) = <<"search", "track", "results">>
    /\ inv[i].resp = Some([isError |-> FALSE, text |-> StrVal("{rows}")])


\* C23: while the handler of one invocation is suspended on a call to the
\* SDK, no handler of another invocation starts or resumes.
C23_Serialized ==
  [][\A i, j \in Slots :
       (i # j /\ inv[i].pc \in Waiting /\ inv'[j] # inv[j])
       => inv'[j] = Idle]_vars

\* A time bound as it is forwarded: the caller's value when given and not
\* empty, otherwise no key.
Forwarded(given) == IF given # None /\ given[1] # "" THEN given ELSE None

\* C24: the parameters of the search submission and the options of the
\* saved-search dispatch carry earliest_time and latest_time with the
\* caller's value when it was given and not empty, and not otherwise.
C24_TimeBounds ==
  \A i \in Slots : \A k \in 1..Len(inv[i].calls) :
    LET c == inv[i].calls[k]
        a == inv[i].input[1]
    IN /\ c.call = "search"
          => /\ c.params.earliest_time = Forwarded(a.earliest_time)
             /\ c.params.latest_time = Forwarded(a.latest_time)
       /\ c.call = "dispatch"
          => /\ c.params.options.earliest_time = Forwarded(a.earliest_time)
             /\ c.params.options.latest_time = Forwarded(a.latest_time)

C24_Witness ==
  \E i \in Slots :
    /\ inv[i].op = "run_saved_search" /\ inv[i].pc = "dispatch"
    /\ inv[i].input[1].earliest_time = Some("")
    /\ inv[i].input[1].latest_time = Some("now")
    /\ inv[i].calls[2].params.options =
         [earliest_time |-> None, latest_time |-> Some("now")]


\* The calls that read data through a Service.
DataCalls == {"search", "savedSearches.fetch", "indexes.fetch", "serverInfo"}

\* C25: every data call is made on a Service whose login has succeeded,
\* and the status resource answers "Connected" only when the Service in
\* this.splunkService is one whose login has succeeded.
C25_NoCallBeforeLogin ==
  [][\A i \in Slots :
       /\ \A k \in 1..Len(inv'[i].calls) :
            inv'[i].calls[k].call \in DataCalls
            => inv'[i].calls[k].login = "ok"
       /\ (/\ inv[i].pc = "idle" /\ inv'[i].op = "connection_status"
           /\ inv'[i].resp[1].text = StrVal("Connected"))
          => splunkService # Null /\ handles[splunkService] = "ok"]_vars

\* In this step the login of the configure in slot i fails.
LoginFails(i) == LoginCompletes(i) /\ inv'[i].resp[1].isError

\* C26: when the login of a configure fails while this.splunkService holds
\* the Service of another configure whose login succeeded, the field keeps
\* that Service.
C26_FailureClearsOwnHandle ==
  [][\A i \in Slots :
       (/\ LoginFails(i)
        /\ splunkService # Null
        /\ splunkService # inv[i].h
        /\ handles[splunkService] = "ok")
       => splunkService' = splunkService]_vars

\* C27: in the step in which a configure gets its success response,
\* this.splunkService is set and holds a Service whose login succeeded.
C27_SuccessMeansSession ==
  [][\A i \in Slots :
       (LoginCompletes(i) /\ ~inv'[i].resp[1].isError)
       => /\ splunkService' # Null
          /\ handles'[splunkService'] = "ok"]_vars


\* The track and results calls of slot i are made on job.
OnJob(i, job) ==
  \A k \in 1..Len(inv[i].calls) :
    inv[i].calls[k].call \in {"track", "results"}
    => inv[i].calls[k].on = job

\* C28: the job a search or run_saved_search tracks and reads results from
\* is the job its own submission or dispatch handed over, whatever other
\* invocations do and whatever this.splunkService holds meanwhile; the
\* response is made in the callback of that results call.
C28_OwnJob ==
  [][\A i \in Slots :
       /\ \A out \in JobOutcomes(AllAnswers, i) :
            (out.job # None
             /\ (SearchSubmitDone(i, out) \/ RunDispatchDone(i, out)))
            => inv'[i].job = out.job
       /\ inv'[i].op \in {"search", "run_saved_search"}
          => /\ OnJob(i, inv[i].job)'
             /\ inv[i].job # None => inv'[i].job = inv[i].job
       /\ (/\ inv'[i].op \in {"search", "run_saved_search"}
           /\ inv[i].pc # "done" /\ inv'[i].pc = "done"
           /\ inv'[i].resp # Some(InvalidParams)
           /\ ~inv'[i].resp[1].isError)
          => \E out \in ResultsOutcomes(AllAnswers) :
               /\ out.err = None
               /\ SearchResultsDone(i, out) \/ RunResultsDone(i, out)]_vars

C28_Witness ==
  /\ splunkService = Null
  /\ \E i \in Slots :
       /\ inv[i].op = "search" /\ inv[i].pc = "done"
       /\ inv[i].job = Some(<<"job", i>>)
       /\ ~inv[i].resp[1].isError
       /\ inv[i].calls[1].login = "ok"
       /\ inv[i].calls[3].call = "results"
       /\ inv[i].calls[3].on = Some(<<"job", i>>)


\* The string t occurs in the string s.
Contains(s, t) ==
  \E k \in 1..(Len(s) - Len(t) + 1) : SubSeq(s, k, k + Len(t) - 1) = t

\* The configure arguments a and b, both valid, name the same scheme, host
\* and port once the defaults are filled in.
SameEndpoint(a, b) ==
  /\ ParseConfigureArgs(a).scheme = ParseConfigureArgs(b).scheme
  /\ ParseConfigureArgs(a).host = ParseConfigureArgs(b).host
  /\ ParseConfigureArgs(a).port = ParseConfigureArgs(b).port

\* C29: the success response of a configure is the response any configure
\* with the same scheme, host and port gets on success, whatever its
\* username and password, and its text does not contain the password.
C29_SuccessTextNoCredentials ==
  \A i \in Slots :
    (/\ inv[i].op = "configure" /\ inv[i].pc = "done"
     /\ inv[i].resp # Some(InvalidParams)
     /\ ~inv[i].resp[1].isError)
    => /\ \A b \in AllConfigureArgs :
            (ValidConfigureArgs(b) /\ SameEndpoint(inv[i].input[1], b))
            => inv[i].resp =
                 Some([isError |-> FALSE,
                       text |-> StrVal("Successfully connected to Splunk at "
                                       \o ParseConfigureArgs(b).scheme \o "://"
                                       \o ParseConfigureArgs(b).host \o ":"
                                       \o ToString(ParseConfigureArgs(b).port))])
       /\ ~Contains(inv[i].resp[1].text[2], inv[i].input[1].password[1])

C29_Witness ==
  \E i \in Slots :
    /\ inv[i].op = "configure" /\ inv[i].pc = "done"
    /\ inv[i].input[1].password = Some("secret")
    /\ inv[i].input[1].port = Some(8000)
    /\ inv[i].resp =
         Some([isError |-> FALSE,
               text |-> StrVal("Successfully connected to Splunk at "
                               \o "http://splunk:8000")])


\* The exit status the summary of validate.sh stands for.
SummaryStatus(passed, total) ==
  IF passed = total THEN 0
  ELSE IF 4 * passed > 3 * total THEN 1
  ELSE 2

\* C30: validate.sh keeps PASSED_CHECKS <= TOTAL_CHECKS, goes on after a
\* failed check, and ends only through its summary, with status 0 when all
\* checks passed, 1 when more than three quarters passed and 2 otherwise.
C30_ValidateSummary ==
  /\ script.PASSED_CHECKS <= script.TOTAL_CHECKS
  /\ script.PASSED_CHECKS < script.TOTAL_CHECKS
     => script.summary \/ script.exit = None
  /\ script.exit # None
     => /\ script.summary
        /\ script.exit =
             Some(SummaryStatus(script.PASSED_CHECKS, script.TOTAL_CHECKS))


====
